---- MODULE Spec2Model ----
\* Memoization core of parsl: the canonical identity encoder (id_for_memo)
\* and the Memoizer (make_hash, check_memo, hash_lookup, update_memo) of
\* src/parsl/dataflow/memoization.py; JobState and JobStatus of
\* src/parsl/providers/provider_base.py.
EXTENDS Integers, Sequences, FiniteSets, TLC

VARIABLES
    memoize,            \* Memoizer.memoize
    memo_lookup_table,  \* Memoizer.memo_lookup_table: hash string -> result
    tasks,              \* the scheduler's task descriptors, by task id
    ret,                \* the outcome of the last Memoizer call
    checkpoint,         \* the checkpoint argument the constructor was given
    updated,            \* per key, the result the last enabled update_memo stored
    obj,                \* encoder input
    obj2,               \* second encoder input
    ident,              \* outcome of id_for_memo(obj)
    ident2,             \* outcome of id_for_memo(obj2)
    phase,              \* position of the encoder run
    pc,                 \* per task, how far the scheduler has taken it
    other,              \* a second Memoizer instance
    job,                \* a JobStatus
    fs,                 \* the files at the paths a JobStatus may hold
    out                 \* the outcome of the last JobStatus property read

memoVars == <<memoize, memo_lookup_table, tasks, ret, checkpoint, updated>>
encVars == <<obj, obj2, ident, ident2, phase>>
extVars == <<pc, other, job, fs, out>>
vars == <<memoize, memo_lookup_table, tasks, ret, checkpoint, updated,
          obj, obj2, ident, ident2, phase, pc, other, job, fs, out>>

\* ---------------------------------------------------------------- bounds

\* longest list and largest dict among the encoder inputs
MaxLen == 2

\* ---------------------------------------------------------------- values

\* Python's None, as a result value and as the value of task['hashsum']
None == "None"

\* A Python value: its runtime type (kind), the payload of a primitive, and the
\* children of a container. A list keeps its elements in vals; a dict keeps its
\* keys in insertion order in keys and the value of keys[i] in vals[i].
Prim(kind, p) == [kind |-> kind, prim |-> p, keys |-> <<>>, vals |-> <<>>]
List(elems) == [kind |-> "list", prim |-> 0, keys |-> <<>>, vals |-> elems]
Dict(ks, vs) == [kind |-> "dict", prim |-> 0, keys |-> ks, vals |-> vs]

\* the types registered with id_for_memo_serialize
SerializedKinds == {"str", "int", "float", "none", "func"}

\* ------------------------------------------------------------ serializer

\* outcome of a call: the bytes returned, or the exception raised
Return(bytes) == [err |-> "", bytes |-> bytes]
Raise(exc) == [err |-> exc, bytes |-> <<>>]

\* type tag written by the serializer
KindTag(kind) ==
    CASE kind = "str" -> 1
      [] kind = "int" -> 2
      [] kind = "float" -> 3
      [] kind = "none" -> 4
      [] kind = "func" -> 5
      [] OTHER -> 6

RECURSIVE Flatten(_)
\* the byte strings of a list, each behind its length
Flatten(chunks) ==
    IF chunks = <<>> THEN <<>>
    ELSE <<Len(Head(chunks))>> \o Head(chunks) \o Flatten(Tail(chunks))

\* serialize_object(x)[0] for a primitive: the type tag and the content
serialize_prim(x) == <<KindTag(x.kind), x.prim>>

\* serialize_object(l)[0] for a list of byte strings: tag, count, the items
serialize_list(chunks) == <<KindTag("list"), Len(chunks)>> \o Flatten(chunks)

\* --------------------------------------------------- id_for_memo (encoder)

\* Python's < between two dict keys is defined within str, within bytes and
\* among numbers, and raises TypeError otherwise
Comparable(a, b) ==
    \/ a.kind = "str" /\ b.kind = "str"
    \/ a.kind = "bytes" /\ b.kind = "bytes"
    \/ a.kind \in {"int", "float"} /\ b.kind \in {"int", "float"}

\* a < b for comparable keys (a float payload p stands for p / 2)
Numeric(a) == IF a.kind = "int" THEN 2 * a.prim ELSE a.prim
KeyLess(a, b) ==
    IF a.kind \in {"int", "float"} THEN Numeric(a) < Numeric(b)
    ELSE a.prim < b.prim

\* sorted(d) raises TypeError as soon as it compares two keys that have no order
SortRaises(ks) ==
    \E i, j \in 1..Len(ks) : i # j /\ ~Comparable(ks[i], ks[j])

\* sorted(d): the keys in ascending order
sorted(ks) == SortSeq(ks, KeyLess)

\* d[k]
GetItem(d, k) == d.vals[CHOOSE i \in 1..Len(d.keys) : d.keys[i] = k]

\* the first exception a sequence of outcomes holds, "" if none
FirstErr(outs) ==
    IF \A i \in 1..Len(outs) : outs[i].err = "" THEN ""
    ELSE outs[CHOOSE i \in 1..Len(outs) :
                /\ outs[i].err # ""
                /\ \A j \in 1..(i - 1) : outs[j].err = ""].err

BytesOf(outs) == [i \in 1..Len(outs) |-> outs[i].bytes]

id_for_memo_serialize(o) == Return(serialize_prim(o))

RECURSIVE id_for_memo(_)

id_for_memo_list(denormalized_list) ==
    LET normalized_list ==
            [i \in 1..Len(denormalized_list.vals) |->
                id_for_memo(denormalized_list.vals[i])]
    IN  IF FirstErr(normalized_list) # "" THEN Raise(FirstErr(normalized_list))
        ELSE Return(serialize_list(BytesOf(normalized_list)))

\* id_for_memo_dict without the sort: the keys are taken in insertion order
id_for_memo_dict_unsorted(denormalized_dict) ==
    LET keys == denormalized_dict.keys
        normalized_list ==
            [i \in 1..(2 * Len(keys)) |->
                IF i % 2 = 1 THEN id_for_memo(keys[(i + 1) \div 2])
                ELSE id_for_memo(GetItem(denormalized_dict, keys[i \div 2]))]
    IN  IF FirstErr(normalized_list) # "" THEN Raise(FirstErr(normalized_list))
        ELSE Return(serialize_list(BytesOf(normalized_list)))

id_for_memo_dict(denormalized_dict) ==
    IF SortRaises(denormalized_dict.keys) THEN Raise("TypeError")
    ELSE LET keys == sorted(denormalized_dict.keys)
             normalized_list ==
                 [i \in 1..(2 * Len(keys)) |->
                     IF i % 2 = 1 THEN id_for_memo(keys[(i + 1) \div 2])
                     ELSE id_for_memo(GetItem(denormalized_dict, keys[i \div 2]))]
         IN  IF FirstErr(normalized_list) # "" THEN Raise(FirstErr(normalized_list))
             ELSE Return(serialize_list(BytesOf(normalized_list)))

\* the singledispatch on the runtime type; the default raises ValueError
id_for_memo(o) ==
    IF o.kind \in SerializedKinds THEN id_for_memo_serialize(o)
    ELSE IF o.kind = "list" THEN id_for_memo_list(o)
    ELSE IF o.kind = "dict" THEN id_for_memo_dict(o)
    ELSE Raise("ValueError")

\* ------------------------------------------------------------- Memoizer

\* hashlib.md5(x): a digest of the bytes, one byte wide here
DigestMod == 16 * 16

RECURSIVE md5(_)
md5(x) ==
    IF x = <<>> THEN 7
    ELSE (31 * md5(SubSeq(x, 1, Len(x) - 1)) + x[Len(x)]) % DigestMod

HexDigits ==
    <<"0", "1", "2", "3", "4", "5", "6", "7", "8", "9", "a", "b", "c", "d", "e", "f">>

\* .hexdigest(): the digest as a lower-case hex string
hexdigest(n) == HexDigits[(n \div 16) + 1] \o HexDigits[(n % 16) + 1]

RECURSIVE Join(_)
\* b''.join(t)
Join(t) == IF t = <<>> THEN <<>> ELSE Head(t) \o Join(Tail(t))

\* outcome of make_hash: the hash string returned, or the exception raised
\* by the first field whose encoding fails
make_hash(task) ==
    LET t == <<id_for_memo(task.func_name),
               id_for_memo(task.fn_hash),
               id_for_memo(task.args),
               id_for_memo(task.kwargs),
               id_for_memo(task.env)>>
    IN  IF FirstErr(t) # "" THEN [err |-> FirstErr(t), hash |-> None]
        ELSE [err |-> "", hash |-> hexdigest(md5(Join(BytesOf(t))))]

\* ------------------------------------------------------ task descriptors

PyStr(p) == Prim("str", p)
PyInt(p) == Prim("int", p)
PyBytes(p) == Prim("bytes", p)
PyNone == Prim("none", 0)

\* the content of a task descriptor, as the scheduler fills it in
Content(args, kwargs, env) ==
    [func_name |-> PyStr(6), fn_hash |-> PyStr(7), args |-> args, kwargs |-> kwargs,
     env |-> env]

\* f(1, 2), f(a=3, b=4), f(b=4, a=3) and f(b"..") in environment "e"
ContentPlain == Content(List(<<PyInt(1), PyInt(2)>>), Dict(<<>>, <<>>), PyStr(5))
ContentKw == Content(List(<<>>), Dict(<<PyStr(1), PyStr(2)>>, <<PyInt(3), PyInt(4)>>), PyStr(5))
ContentKwSwapped ==
    Content(List(<<>>), Dict(<<PyStr(2), PyStr(1)>>, <<PyInt(4), PyInt(3)>>), PyStr(5))
ContentUnsupported == Content(List(<<PyBytes(9)>>), Dict(<<>>, <<>>), PyStr(5))

Contents == {ContentPlain, ContentKw, ContentKwSwapped, ContentUnsupported}

TaskIds == {"t1", "t2"}

\* a task descriptor: the content, the task's memoize flag and hashsum
Task(c, flag, hashsum) ==
    [func_name |-> c.func_name, fn_hash |-> c.fn_hash, args |-> c.args,
     kwargs |-> c.kwargs, env |-> c.env, memoize |-> flag, hashsum |-> hashsum]

\* the results tasks finish with, None among them
Results == {None, "42"}

\* the hash strings of the descriptors that hash
Hashes == {make_hash(c).hash : c \in {d \in Contents : make_hash(d).err = ""}}

\* a mapping with no entry
EmptyTable == [h \in {} |-> None]

\* the checkpoint mappings a Memoizer is constructed with: none, or one entry
\* of an earlier run, holding None or a result
Checkpoints ==
    {EmptyTable, [k \in {make_hash(ContentPlain).hash} |-> "7"],
     [k \in {make_hash(ContentKw).hash} |-> None]}

\* what a call gave back: the call, its argument (a task id, or the hash given
\* to hash_lookup), whether it computed a hash, the exception it raised ("" if
\* none), and the value(s) returned
NoCall ==
    [op |-> "none", task |-> "", hashed |-> FALSE, err |-> "", present |-> FALSE,
     result |-> None]
Outcome(op, t, hashed, err, present, result) ==
    [op |-> op, task |-> t, hashed |-> hashed, err |-> err, present |-> present,
     result |-> result]

\* a constructor that leaves the checkpoint out of the table
MemoizerInit_unseeded(m, c) ==
    /\ memoize = m
    /\ checkpoint = c
    /\ memo_lookup_table = EmptyTable

\* Memoizer.__init__(dfk, memoize, checkpoint)
MemoizerInit(m, c) ==
    /\ memoize = m
    /\ checkpoint = c
    /\ memo_lookup_table = IF m THEN c ELSE EmptyTable

\* the encoder is idle while the Memoizer runs
EncIdle ==
    /\ obj = PyNone
    /\ obj2 = PyNone
    /\ ident = Raise("")
    /\ ident2 = Raise("")
    /\ phase = "idle"

\* a JobStatus: the state it holds, message, exit code, and the two log paths
JobStatus(state, message, exit_code, stdout_path, stderr_path) ==
    [state |-> state, message |-> message, exit_code |-> exit_code,
     stdout_path |-> stdout_path, stderr_path |-> stderr_path]

\* the paths a JobStatus records
Paths == {"job.out", "job.err"}

\* a file at a path: what opening it meets, its length in characters, and the
\* bytes each character takes in the file
File(kind, chars, width) == [kind |-> kind, chars |-> chars, width |-> width]

\* what reading a property of a JobStatus gave: the property, the exception it
\* raised ("" if none), whether it returned None, the text it returned, and
\* the flag or the name it returned
Read(op, err, none, text, flag, name) ==
    [op |-> op, err |-> err, none |-> none, text |-> text, flag |-> flag,
     name |-> name]
NoRead == Read("none", "", TRUE, <<>>, FALSE, "")

\* a second Memoizer: its memoize flag, its table, and whether its table is
\* the same dict object as the first Memoizer's
Memoizer(m, table, same) == [memoize |-> m, memo_lookup_table |-> table, same |-> same]

\* where the scheduler is with a task: before check_memo ("ready"), after it
\* ("checked") or after update_memo ("updated"); whether check_memo hit; and
\* the hashes make_hash has returned for the task
Position(at, hit, hashed) == [at |-> at, hit |-> hit, hashed |-> hashed]

\* no second Memoizer, no job and no scheduling in progress
ExtIdle ==
    /\ pc = [t \in TaskIds |-> Position("idle", FALSE, {})]
    /\ other = Memoizer(FALSE, EmptyTable, FALSE)
    /\ job = JobStatus("UNKNOWN", None, None, None, None)
    /\ fs = [p \in Paths |-> File("missing", 0, 1)]
    /\ out = NoRead

Init ==
    /\ \E m \in BOOLEAN, c \in Checkpoints : MemoizerInit(m, c)
    /\ tasks \in [TaskIds -> {Task(c, f, None) : c \in Contents, f \in BOOLEAN}]
    /\ ret = NoCall
    /\ updated = EmptyTable
    /\ EncIdle
    /\ ExtIdle

\* table[k] = r
SetItem(table, k, r) ==
    [h \in DOMAIN table \cup {k} |-> IF h = k THEN r ELSE table[h]]

\* Memoizer.make_hash(task), called directly
MakeHash(t) ==
    /\ ret' = LET hashedsum == make_hash(tasks[t])
              IN  Outcome("make_hash", t, TRUE, hashedsum.err, FALSE, hashedsum.hash)
    /\ UNCHANGED <<memoize, memo_lookup_table, tasks, checkpoint, updated>>
    /\ UNCHANGED encVars
    /\ UNCHANGED extVars

\* what check_memo does: the value it leaves in task['hashsum'], whether it
\* called make_hash, the exception it let through, and (present, result)
Checked(hashsum, hashed, err, present, result) ==
    [hashsum |-> hashsum, hashed |-> hashed, err |-> err, present |-> present,
     result |-> result]

\* check_memo without the test of task['memoize']
check_memo_global_only(task) ==
    IF ~memoize THEN Checked(None, FALSE, "", FALSE, None)
    ELSE LET hashsum == make_hash(task)
         IN  IF hashsum.err # ""
             THEN Checked(task.hashsum, TRUE, hashsum.err, FALSE, None)
             ELSE IF hashsum.hash \in DOMAIN memo_lookup_table
             THEN Checked(hashsum.hash, TRUE, "", TRUE, memo_lookup_table[hashsum.hash])
             ELSE Checked(hashsum.hash, TRUE, "", FALSE, None)

\* check_memo that takes a cached None for a miss
check_memo_none_is_miss(task) ==
    IF ~memoize \/ ~task.memoize THEN Checked(None, FALSE, "", FALSE, None)
    ELSE LET hashsum == make_hash(task)
         IN  IF hashsum.err # ""
             THEN Checked(task.hashsum, TRUE, hashsum.err, FALSE, None)
             ELSE IF /\ hashsum.hash \in DOMAIN memo_lookup_table
                     /\ memo_lookup_table[hashsum.hash] # None
             THEN Checked(hashsum.hash, TRUE, "", TRUE, memo_lookup_table[hashsum.hash])
             ELSE Checked(hashsum.hash, TRUE, "", FALSE, None)

\* check_memo that records the hash on a miss only
check_memo_hashsum_on_miss(task) ==
    IF ~memoize \/ ~task.memoize THEN Checked(None, FALSE, "", FALSE, None)
    ELSE LET hashsum == make_hash(task)
         IN  IF hashsum.err # ""
             THEN Checked(task.hashsum, TRUE, hashsum.err, FALSE, None)
             ELSE IF hashsum.hash \in DOMAIN memo_lookup_table
             THEN Checked(task.hashsum, TRUE, "", TRUE, memo_lookup_table[hashsum.hash])
             ELSE Checked(hashsum.hash, TRUE, "", FALSE, None)

\* Memoizer.check_memo(task_id, task)
check_memo(task) ==
    IF ~memoize \/ ~task.memoize THEN Checked(None, FALSE, "", FALSE, None)
    ELSE LET hashsum == make_hash(task)
         IN  IF hashsum.err # ""
             THEN Checked(task.hashsum, TRUE, hashsum.err, FALSE, None)
             ELSE IF hashsum.hash \in DOMAIN memo_lookup_table
             THEN Checked(hashsum.hash, TRUE, "", TRUE, memo_lookup_table[hashsum.hash])
             ELSE Checked(hashsum.hash, TRUE, "", FALSE, None)

CheckMemo(t) ==
    /\ LET c == check_memo(tasks[t])
       IN  /\ tasks' = [tasks EXCEPT ![t].hashsum = c.hashsum]
           /\ ret' = Outcome("check_memo", t, c.hashed, c.err, c.present, c.result)
    /\ UNCHANGED <<memoize, memo_lookup_table, checkpoint, updated>>
    /\ UNCHANGED encVars
    /\ UNCHANGED extVars

\* a lookup that answers None for a missing hash
hash_lookup_get(hashsum) ==
    IF hashsum \in DOMAIN memo_lookup_table
    THEN [err |-> "", result |-> memo_lookup_table[hashsum]]
    ELSE [err |-> "", result |-> None]

\* Memoizer.hash_lookup(hashsum): the entry, or KeyError
hash_lookup(hashsum) ==
    IF hashsum \in DOMAIN memo_lookup_table
    THEN [err |-> "", result |-> memo_lookup_table[hashsum]]
    ELSE [err |-> "KeyError", result |-> None]

HashLookup(h) ==
    /\ ret' = LET l == hash_lookup(h)
              IN  Outcome("hash_lookup", h, FALSE, l.err, l.err = "", l.result)
    /\ UNCHANGED <<memoize, memo_lookup_table, tasks, checkpoint, updated>>
    /\ UNCHANGED encVars
    /\ UNCHANGED extVars

\* update_memo that keeps the entry a hash already has
update_memo_keep_first(table, task, r) ==
    IF ~memoize \/ ~task.memoize THEN table
    ELSE IF task.hashsum \in DOMAIN table THEN table
    ELSE SetItem(table, task.hashsum, r)

\* update_memo without the test of task['memoize']
update_memo_global_only(table, task, r) ==
    IF ~memoize THEN table
    ELSE SetItem(table, task.hashsum, r)

\* update_memo that starts the table afresh
update_memo_replace(table, task, r) ==
    IF ~memoize \/ ~task.memoize THEN table
    ELSE [h \in {task.hashsum} |-> r]

\* update_memo that writes the result under every key
update_memo_every_key(table, task, r) ==
    IF ~memoize \/ ~task.memoize THEN table
    ELSE [h \in DOMAIN table \cup {task.hashsum} |-> r]

\* Memoizer.update_memo(task_id, task, r): the table it leaves
update_memo(table, task, r) ==
    IF ~memoize \/ ~task.memoize THEN table
    ELSE IF task.hashsum \in DOMAIN table THEN SetItem(table, task.hashsum, r)
    ELSE SetItem(table, task.hashsum, r)

UpdateMemo(t, r) ==
    /\ memo_lookup_table' = update_memo(memo_lookup_table, tasks[t], r)
    /\ updated' = IF memoize /\ tasks[t].memoize
                  THEN SetItem(updated, tasks[t].hashsum, r)
                  ELSE updated
    /\ ret' = Outcome("update_memo", t, FALSE, "", FALSE, None)
    /\ UNCHANGED <<memoize, tasks, checkpoint>>
    /\ UNCHANGED encVars
    /\ UNCHANGED extVars

\* the scheduler turns a task's memoize flag on or off
SetMemoize(t) ==
    /\ tasks' = [tasks EXCEPT ![t].memoize = ~tasks[t].memoize]
    /\ UNCHANGED <<memoize, memo_lookup_table, ret, checkpoint, updated>>
    /\ UNCHANGED encVars
    /\ UNCHANGED extVars

Next ==
    \/ \E t \in TaskIds : MakeHash(t)
    \/ \E t \in TaskIds : CheckMemo(t)
    \/ \E h \in Hashes \cup {None} : HashLookup(h)
    \/ \E t \in TaskIds, r \in Results : UpdateMemo(t, r)
    \/ \E t \in TaskIds : SetMemoize(t)

Spec == Init /\ [][Next]_vars

\* ------------------------------------------------ properties of the Memoizer

\* memoization is on for the Memoizer and for task t
MemoOn(t) == memoize /\ tasks[t].memoize

\* the value most recently stored under hash h: by update_memo, or else by the
\* checkpoint the table was seeded from
LastStored(h) == IF h \in DOMAIN updated THEN updated[h] ELSE checkpoint[h]

\* C1: a check_memo with memoization on, for a task whose computed hash is a
\* key some update_memo wrote, returns (True, R) with R the result the latest
\* such update_memo was given: also when R is None, when the key had an older
\* entry, and when the task is another descriptor than the one updated.
C1_UpdateThenHit ==
    [][\A t \in TaskIds :
        LET H == make_hash(tasks[t])
        IN  (CheckMemo(t) /\ MemoOn(t) /\ H.err = "" /\ H.hash \in DOMAIN updated)
            => /\ ret'.err = ""
               /\ ret'.present
               /\ ret'.result = updated[H.hash]]_vars

\* a hit on None that an update_memo stored over the checkpoint's entry, with
\* both descriptors carrying the same hash
C1_Witness ==
    /\ ret.op = "check_memo"
    /\ ret.present
    /\ ret.result = None
    /\ \A t \in TaskIds : tasks[t].hashsum = make_hash(ContentPlain).hash
    /\ make_hash(ContentPlain).hash \in DOMAIN checkpoint
    /\ make_hash(ContentPlain).hash \in DOMAIN updated
    /\ checkpoint[make_hash(ContentPlain).hash] # None
    /\ updated[make_hash(ContentPlain).hash] = None

\* C2: with memoization on, check_memo returns (True, r) exactly when the table
\* has an entry under make_hash(task), r being the value most recently stored
\* under that key by update_memo or else by the checkpoint; otherwise it
\* returns (False, None).
C2_HitIffEntry ==
    [][\A t \in TaskIds :
        LET H == make_hash(tasks[t])
        IN  (CheckMemo(t) /\ MemoOn(t) /\ H.err = "")
            => /\ ret'.err = ""
               /\ ret'.present = (H.hash \in DOMAIN memo_lookup_table)
               /\ ret'.present = (H.hash \in DOMAIN updated \cup DOMAIN checkpoint)
               /\ ret'.present => ret'.result = LastStored(H.hash)
               /\ ~ret'.present => ret'.result = None]_vars

\* a hit on a None the checkpoint seeded, with other keys updated meanwhile
C2_Witness ==
    /\ ret.op = "check_memo"
    /\ ret.present
    /\ ret.result = None
    /\ tasks[ret.task].hashsum \in DOMAIN checkpoint
    /\ tasks[ret.task].hashsum \notin DOMAIN updated
    /\ updated # EmptyTable

\* C3: with the Memoizer disabled or the task's memoize flag off, check_memo
\* returns (False, None), sets the task's hashsum to None, computes no hash
\* and raises nothing, whatever the table holds and whatever the arguments are.
C3_DisabledCheck ==
    [][\A t \in TaskIds :
        (CheckMemo(t) /\ ~MemoOn(t))
        => /\ ret'.err = ""
           /\ ~ret'.present
           /\ ret'.result = None
           /\ ~ret'.hashed
           /\ tasks'[t].hashsum = None
           /\ memo_lookup_table' = memo_lookup_table]_vars

\* check_memo answered a miss for a task whose flag is off although the table
\* holds an entry under the task's hash
C3_Witness ==
    /\ ret.op = "check_memo"
    /\ ~ret.hashed
    /\ memoize
    /\ ~tasks[ret.task].memoize
    /\ tasks[ret.task].hashsum = None
    /\ make_hash(tasks[ret.task]).err = ""
    /\ make_hash(tasks[ret.task]).hash \in DOMAIN memo_lookup_table

\* C4: update_memo leaves the table and the task as they are when the
\* Memoizer is disabled or the task's memoize flag is off.
C4_DisabledUpdate ==
    [][\A t \in TaskIds, r \in Results :
        (UpdateMemo(t, r) /\ ~MemoOn(t))
        => /\ memo_lookup_table' = memo_lookup_table
           /\ tasks' = tasks]_vars

\* update_memo returned for a task whose flag is off and whose hashsum is a
\* hash the table has no entry for
C4_Witness ==
    /\ ret.op = "update_memo"
    /\ memoize
    /\ ~tasks[ret.task].memoize
    /\ tasks[ret.task].hashsum # None
    /\ tasks[ret.task].hashsum \notin DOMAIN memo_lookup_table

\* C5 as claimed: until the first update_memo, the table is the checkpoint
\* mapping the constructor was given, and hash_lookup answers from it.
C5_TableIsCheckpoint ==
    updated = EmptyTable
    => /\ memo_lookup_table = checkpoint
       /\ ret.op = "hash_lookup"
          => IF ret.task \in DOMAIN checkpoint
             THEN ret.err = "" /\ ret.result = checkpoint[ret.task]
             ELSE ret.err = "KeyError"

\* C5: until the first update_memo, the table of a Memoizer constructed with
\* memoization on is the checkpoint mapping C it was given (hash_lookup(h)
\* returns C[h] for h in C and raises KeyError otherwise), and the table of a
\* Memoizer constructed with memoization off is empty (hash_lookup raises
\* KeyError for every h).
C5_TableIsCheckpointWhenOn ==
    updated = EmptyTable
    => LET C == IF memoize THEN checkpoint ELSE EmptyTable
       IN  /\ memo_lookup_table = C
           /\ ret.op = "hash_lookup"
              => IF ret.task \in DOMAIN C
                 THEN ret.err = "" /\ ret.result = C[ret.task]
                 ELSE ret.err = "KeyError"

\* hash_lookup found the checkpoint's entry before any update_memo
C5_Witness ==
    /\ updated = EmptyTable
    /\ memoize
    /\ ret.op = "hash_lookup"
    /\ ret.err = ""
    /\ ret.task \in DOMAIN checkpoint
    /\ ret.result = checkpoint[ret.task]

\* C6: hash_lookup(h) returns the stored value (a stored None too) when h is a
\* key of the table and raises KeyError when it is not, which check_memo's
\* miss never does; the table is the same afterwards.
C6_LookupOrKeyError ==
    [][/\ \A h \in Hashes \cup {None} :
            HashLookup(h)
            => /\ IF h \in DOMAIN memo_lookup_table
                  THEN ret'.err = "" /\ ret'.result = memo_lookup_table[h]
                  ELSE ret'.err = "KeyError"
               /\ memo_lookup_table' = memo_lookup_table
       /\ \A t \in TaskIds :
            (CheckMemo(t) /\ ~ret'.present) => ret'.err # "KeyError"]_vars

\* hash_lookup raised KeyError for a hash that is missing from a table that
\* holds None under another key
C6_Witness ==
    /\ ret.op = "hash_lookup"
    /\ ret.err = "KeyError"
    /\ ret.task \notin DOMAIN memo_lookup_table
    /\ \E h \in DOMAIN memo_lookup_table : memo_lookup_table[h] = None

\* C10: a key of the table stays a key of the table through every call.
C10_KeysOnlyGrow ==
    [][DOMAIN memo_lookup_table \subseteq DOMAIN memo_lookup_table']_vars

\* the checkpoint's key and a key written by update_memo are both there after
\* a key has been overwritten
C10_Witness ==
    /\ DOMAIN checkpoint # {}
    /\ DOMAIN checkpoint \subseteq DOMAIN memo_lookup_table
    /\ DOMAIN checkpoint \subseteq DOMAIN updated
    /\ Cardinality(DOMAIN memo_lookup_table) >= 3
    /\ ret.op = "hash_lookup"

\* ------------------------------------------------------- encoder inputs

RECURSIVE SeqsUpTo(_, _)
\* the sequences over S of length at most n
SeqsUpTo(S, n) ==
    IF n = 0 THEN {<<>>}
    ELSE LET shorter == SeqsUpTo(S, n - 1)
         IN  shorter \cup {Append(q, x) : q \in {p \in shorter : Len(p) = n - 1}, x \in S}

Distinct(q) == \A i, j \in 1..Len(q) : i # j => q[i] # q[j]

\* str, int, None and (with no rule registered) bytes
Leaves == {PyStr(1), PyStr(2), PyInt(3), PyNone, PyBytes(9)}

\* what Python lets be a dict key here
KeyLeaves == {PyStr(1), PyStr(2), PyInt(3), PyBytes(9)}

ListsOver(S) == {List(q) : q \in SeqsUpTo(S, MaxLen)}

DictsOver(S) ==
    {Dict(ks, vs) : <<ks, vs>> \in
        {p \in {q \in SeqsUpTo(KeyLeaves, MaxLen) : Distinct(q)} \X SeqsUpTo(S, MaxLen) :
            Len(p[1]) = Len(p[2])}}

\* primitives, and lists and dicts of primitives
FlatValues == Leaves \cup ListsOver(Leaves) \cup DictsOver(Leaves)

\* a value inside a list, inside a dict, and inside a dict beside another key
Nested(v) ==
    {List(<<v>>), Dict(<<PyStr(1)>>, <<v>>), Dict(<<PyStr(2), PyStr(1)>>, <<PyInt(3), v>>)}

Values == FlatValues \cup UNION {Nested(v) : v \in FlatValues}

\* the small values, taken two at a time
PairValues == {v \in FlatValues : Len(v.keys) <= 1}

\* the permutations of 1..n
Perms(n) == {f \in [1..n -> 1..n] : \A i, j \in 1..n : i # j => f[i] # f[j]}

RECURSIVE Reorderings(_)
\* the values that hold what v holds, the dicts in it built in any key order
Reorderings(v) ==
    IF v.kind = "list"
    THEN {List(q) : q \in {p \in [1..Len(v.vals) -> UNION {Reorderings(v.vals[i]) :
                                                       i \in 1..Len(v.vals)}] :
                            \A i \in 1..Len(v.vals) : p[i] \in Reorderings(v.vals[i])}}
    ELSE IF v.kind = "dict"
    THEN UNION {{Dict([i \in 1..Len(v.keys) |-> v.keys[f[i]]], q) :
                    q \in {p \in [1..Len(v.vals) -> UNION {Reorderings(v.vals[i]) :
                                                       i \in 1..Len(v.vals)}] :
                            \A i \in 1..Len(v.vals) : p[i] \in Reorderings(v.vals[f[i]])}} :
                f \in Perms(Len(v.keys))}
    ELSE {v}

\* -------------------------------------------------------- encoder runs

\* the Memoizer is left as constructed, with memoization on, while the encoder runs
MemoIdle ==
    /\ MemoizerInit(TRUE, EmptyTable)
    /\ tasks = [t \in TaskIds |-> Task(ContentPlain, TRUE, None)]
    /\ ret = NoCall
    /\ updated = EmptyTable

\* one value to encode
InitEnc ==
    /\ MemoIdle
    /\ ExtIdle
    /\ obj \in Values
    /\ obj2 = obj
    /\ ident = Raise("")
    /\ ident2 = Raise("")
    /\ phase = "input"

\* two values to encode
InitPair ==
    /\ MemoIdle
    /\ ExtIdle
    /\ obj \in PairValues
    /\ obj2 \in PairValues
    /\ ident = Raise("")
    /\ ident2 = Raise("")
    /\ phase = "input"

\* the caller builds the same value again, inserting the keys in another order
Reorder ==
    /\ phase = "input"
    /\ obj2' \in Reorderings(obj) \ {obj}
    /\ phase' = "reordered"
    /\ UNCHANGED <<obj, ident, ident2>>
    /\ UNCHANGED memoVars
    /\ UNCHANGED extVars

\* id_for_memo(obj) and id_for_memo(obj2)
Identity ==
    /\ phase \in {"input", "reordered"}
    /\ ident' = id_for_memo(obj)
    /\ ident2' = id_for_memo(obj2)
    /\ phase' = "encoded"
    /\ UNCHANGED <<obj, obj2>>
    /\ UNCHANGED memoVars
    /\ UNCHANGED extVars

\* the keyword arguments of a call are a dict with str keys
IsKwargs(v) == v.kind = "dict" /\ \A i \in 1..Len(v.keys) : v.keys[i].kind = "str"

\* the scheduler makes two task descriptors, with obj and obj2 for kwargs
Submit ==
    /\ phase = "encoded"
    /\ IsKwargs(obj)
    /\ tasks' = [t \in TaskIds |->
                    Task(Content(List(<<>>), IF t = "t1" THEN obj ELSE obj2, PyStr(5)),
                         TRUE, None)]
    /\ phase' = "submitted"
    /\ UNCHANGED <<obj, obj2, ident, ident2>>
    /\ UNCHANGED <<memoize, memo_lookup_table, ret, checkpoint, updated>>
    /\ UNCHANGED extVars

\* check_memo on a submitted descriptor
CheckSubmitted(t) == phase = "submitted" /\ CheckMemo(t)

NextEnc ==
    \/ Reorder
    \/ Identity
    \/ Submit
    \/ \E t \in TaskIds : CheckSubmitted(t)

SpecEnc == InitEnc /\ [][NextEnc]_vars

NextPair == Identity

SpecPair == InitPair /\ [][NextPair]_vars

\* ------------------------------------------------ properties of the encoder

RECURSIVE Supported(_)
\* v is text, integer, floating point, None or a function, or a list or dict
\* that holds only such values, at any depth
Supported(v) ==
    IF v.kind \in {"list", "dict"}
    THEN /\ \A i \in 1..Len(v.keys) : Supported(v.keys[i])
         /\ \A i \in 1..Len(v.vals) : Supported(v.vals[i])
    ELSE v.kind \in SerializedKinds

RECURSIVE Sortable(_)
\* every dict in v has keys that Python can order
Sortable(v) ==
    /\ v.kind = "dict" => ~SortRaises(v.keys)
    /\ \A i \in 1..Len(v.vals) : Sortable(v.vals[i])

RECURSIVE MemoEquiv(_, _)
\* a and b are the same value for memoization: the same primitive, lists of
\* equivalent elements in the same order, dicts of the same keys with
\* equivalent values
MemoEquiv(a, b) ==
    /\ a.kind = b.kind
    /\ a.prim = b.prim
    /\ a.kind = "list"
       => /\ Len(a.vals) = Len(b.vals)
          /\ \A i \in 1..Len(a.vals) : MemoEquiv(a.vals[i], b.vals[i])
    /\ a.kind = "dict"
       => /\ {a.keys[i] : i \in 1..Len(a.keys)} = {b.keys[i] : i \in 1..Len(b.keys)}
          /\ \A i \in 1..Len(a.keys) : MemoEquiv(a.vals[i], GetItem(b, a.keys[i]))

\* the two submitted descriptors have both been through check_memo
BothChecked ==
    /\ phase = "submitted"
    /\ ret.op = "check_memo"
    /\ \A t \in TaskIds : tasks[t].hashsum # None

\* C7 as claimed: two values over supported kinds that differ only in the order
\* their mappings were built in get the same bytes from id_for_memo, and two
\* descriptors that differ only in the order of kwargs get the same hash.
C7_OrderIndependent ==
    /\ (phase = "encoded" /\ Supported(obj))
       => ident.err = "" /\ ident2.err = "" /\ ident.bytes = ident2.bytes
    /\ (BothChecked /\ Supported(obj)) => tasks["t1"].hashsum = tasks["t2"].hashsum

\* what the code does keep of C7: the same, for mappings whose keys can be sorted
C7_OrderIndependentWhenSortable ==
    /\ (phase = "encoded" /\ Supported(obj) /\ Sortable(obj))
       => ident.err = "" /\ ident2.err = "" /\ ident.bytes = ident2.bytes
    /\ (BothChecked /\ Supported(obj)) => tasks["t1"].hashsum = tasks["t2"].hashsum

\* C8 as claimed: two supported values that get the same bytes from
\* id_for_memo are memo-equivalent.
C8_Injective ==
    (/\ phase = "encoded"
     /\ Supported(obj) /\ Supported(obj2)
     /\ ident.err = "" /\ ident2.err = ""
     /\ ident.bytes = ident2.bytes)
    => MemoEquiv(obj, obj2)

\* C9 as claimed: id_for_memo raises ValueError, and returns no bytes, for a
\* value of a kind with no rule and for a list or dict that holds one at any depth.
C9_UnsupportedRaises ==
    (phase = "encoded" /\ ~Supported(obj))
    => ident.err = "ValueError" /\ ident.bytes = <<>>

\* ------------------------------------------------ JobState and JobStatus

\* class JobState: the names of the members
JobState ==
    {"UNKNOWN", "PENDING", "RUNNING", "CANCELLED", "COMPLETED", "FAILED", "TIMEOUT",
     "HELD"}

\* the value of a member: (number, terminal, status name)
JobStateValue(s) ==
    CASE s = "UNKNOWN" -> <<0, FALSE, "UNKNOWN">>
      [] s = "PENDING" -> <<1, FALSE, "PENDING">>
      [] s = "RUNNING" -> <<2, FALSE, "RUNNING">>
      [] s = "CANCELLED" -> <<3, TRUE, "CANCELLED">>
      [] s = "COMPLETED" -> <<4, TRUE, "COMPLETED">>
      [] s = "FAILED" -> <<5, TRUE, "FAILED">>
      [] s = "TIMEOUT" -> <<6, TRUE, "TIMEOUT">>
      [] s = "HELD" -> <<7, FALSE, "HELD">>

\* a terminal flag that counts a held job as finished
JobState_terminal_held(s) == JobStateValue(s)[2] \/ s = "HELD"

\* JobState.terminal
JobState_terminal(s) == JobStateValue(s)[2]

\* JobState.status_name
JobState_status_name(s) == JobStateValue(s)[3]

\* JobStatus.terminal
terminal(status) == JobState_terminal(status.state)

\* JobStatus.status_name
status_name(status) == JobState_status_name(status.state)

SUMMARY_TRUNCATION_THRESHOLD == 2048

\* the files a path may lead to: none, one the process may not open, a
\* directory, one whose bytes are not text, and text files of lengths around
\* the threshold, of one, two or three bytes per character
Text(chars, width) == File("text", chars, width)
Files ==
    {File("missing", 0, 1), File("denied", 0, 1), File("directory", 0, 1),
     File("undecodable", 0, 1),
     Text(0, 1), Text(2048, 1), Text(2049, 1), Text(4000, 1),
     Text(1024, 2), Text(1025, 2), Text(1500, 2), Text(1000, 3)}

\* the characters from..to of the file, and the elision marker '\n...\n'
Span(from, to) == [marker |-> FALSE, from |-> from, to |-> to]
Marker == [marker |-> TRUE, from |-> 1, to |-> 0]
MarkerChars == <<"\n", ".", ".", ".", "\n">>

\* what a read gives back: text, None, or an exception
ReadText(text) == [err |-> "", none |-> FALSE, text |-> text]
ReadNone == [err |-> "", none |-> TRUE, text |-> <<>>]
ReadRaise(e) == [err |-> e, none |-> TRUE, text |-> <<>>]

\* the exception open(path, 'r') followed by a read meets, "" if none
OpenError(f) ==
    CASE f.kind = "missing" -> "FileNotFoundError"
      [] f.kind = "denied" -> "PermissionError"
      [] f.kind = "directory" -> "IsADirectoryError"
      [] f.kind = "undecodable" -> "UnicodeDecodeError"
      [] OTHER -> ""

\* if path: a path that is neither None nor empty
Truthy(path) == path # None /\ path # ""

Min(a, b) == IF a < b THEN a ELSE b

\* a full read that lets through what is not FileNotFoundError
_read_file_missing_only(path) ==
    IF OpenError(fs[path]) = "" THEN ReadText(<<Span(1, fs[path].chars)>>)
    ELSE IF OpenError(fs[path]) = "FileNotFoundError" THEN ReadNone
    ELSE ReadRaise(OpenError(fs[path]))

\* JobStatus._read_file(path)
_read_file(path) ==
    IF OpenError(fs[path]) = "" THEN ReadText(<<Span(1, fs[path].chars)>>)
    ELSE ReadNone

\* JobStatus.stdout
stdout(status) ==
    IF Truthy(status.stdout_path) THEN _read_file(status.stdout_path) ELSE ReadNone

\* JobStatus.stderr
stderr(status) ==
    IF Truthy(status.stderr_path) THEN _read_file(status.stderr_path) ELSE ReadNone

\* JobStatus._read_summary(path): tell() and seek() count bytes, read(n)
\* counts characters
_read_summary(path) ==
    IF ~Truthy(path) THEN ReadNone
    ELSE LET f == fs[path]
             size == f.chars * f.width
             half_threshold == SUMMARY_TRUNCATION_THRESHOLD \div 2
             offset == size - half_threshold
             first == offset \div f.width
         IN  IF OpenError(f) = "FileNotFoundError" THEN ReadNone
             ELSE IF OpenError(f) # "" THEN ReadRaise(OpenError(f))
             ELSE IF size > SUMMARY_TRUNCATION_THRESHOLD
             THEN IF offset % f.width # 0 THEN ReadRaise("UnicodeDecodeError")
                  ELSE ReadText(<<Span(1, Min(half_threshold, f.chars)), Marker,
                                  Span(first + 1, Min(first + half_threshold, f.chars))>>)
             ELSE ReadText(<<Span(1, f.chars)>>)

\* JobStatus.stdout_summary
stdout_summary(status) == _read_summary(status.stdout_path)

\* JobStatus.stderr_summary
stderr_summary(status) == _read_summary(status.stderr_path)

\* a provider reports a job with its log paths; the files are as the job left them
InitJob ==
    /\ MemoIdle
    /\ EncIdle
    /\ pc = [t \in TaskIds |-> Position("idle", FALSE, {})]
    /\ other = Memoizer(FALSE, EmptyTable, FALSE)
    /\ job \in {JobStatus(s, None, None, o, e) :
                    s \in JobState, o \in {None, "", "job.out"}, e \in {None, "job.err"}}
    /\ fs \in [Paths -> Files]
    /\ out = NoRead

\* the caller reads a text property of the job
ReadLog(op, r) ==
    /\ out' = Read(op, r.err, r.none, r.text, FALSE, "")
    /\ UNCHANGED <<pc, other, job, fs>>
    /\ UNCHANGED memoVars
    /\ UNCHANGED encVars

ReadStdout == ReadLog("stdout", stdout(job))
ReadStderr == ReadLog("stderr", stderr(job))
ReadStdoutSummary == ReadLog("stdout_summary", stdout_summary(job))
ReadStderrSummary == ReadLog("stderr_summary", stderr_summary(job))

\* the caller asks whether the job is over
ReadTerminal ==
    /\ out' = Read("terminal", "", FALSE, <<>>, terminal(job), "")
    /\ UNCHANGED <<pc, other, job, fs>>
    /\ UNCHANGED memoVars
    /\ UNCHANGED encVars

\* the caller asks for the name of the job's state
ReadStatusName ==
    /\ out' = Read("status_name", "", FALSE, <<>>, FALSE, status_name(job))
    /\ UNCHANGED <<pc, other, job, fs>>
    /\ UNCHANGED memoVars
    /\ UNCHANGED encVars

NextJob ==
    \/ ReadStdout
    \/ ReadStderr
    \/ ReadStdoutSummary
    \/ ReadStderrSummary
    \/ ReadTerminal
    \/ ReadStatusName

SpecJob == InitJob /\ [][NextJob]_vars

\* ------------------------------------------------ properties of JobStatus

\* C11: JobState has exactly the eight members UNKNOWN, PENDING, RUNNING,
\* CANCELLED, COMPLETED, FAILED, TIMEOUT and HELD; terminal is true exactly for
\* CANCELLED, COMPLETED, FAILED and TIMEOUT; and a JobStatus reports the
\* terminal flag and the status name of the JobState it holds.
C11_TerminalStates ==
    /\ Cardinality(JobState) = 8
    /\ job.state \in JobState
    /\ \A s \in JobState :
           JobState_terminal(s) <=> s \in {"CANCELLED", "COMPLETED", "FAILED", "TIMEOUT"}
    /\ out.op = "terminal" =>
           /\ out.err = ""
           /\ out.flag = (job.state \in {"CANCELLED", "COMPLETED", "FAILED", "TIMEOUT"})
    /\ out.op = "status_name" => out.err = "" /\ out.name = job.state

C11_Witness == out.op = "terminal" /\ job.state = "HELD" /\ ~out.flag

\* the path a log property reads
PathOf(op) ==
    IF op \in {"stdout", "stdout_summary"} THEN job.stdout_path ELSE job.stderr_path

\* C12: stdout and stderr never raise: they return None when no path was
\* recorded, None when the file is missing or cannot be opened or read for
\* any reason, and the full content of the file otherwise.
C12_FullReadNeverRaises ==
    out.op \in {"stdout", "stderr"} =>
        LET path == PathOf(out.op)
        IN  /\ out.err = ""
            /\ ~Truthy(path) => out.none
            /\ (Truthy(path) /\ fs[path].kind # "text") => out.none
            /\ (Truthy(path) /\ fs[path].kind = "text") =>
                   ~out.none /\ out.text = <<Span(1, fs[path].chars)>>

C12_Witness ==
    /\ out.op = "stdout"
    /\ job.stdout_path = "job.out"
    /\ fs["job.out"].kind = "directory"
    /\ out.err = ""
    /\ out.none

\* C13: stdout_summary and stderr_summary never raise: they return None when
\* no path is set, and None for every failure to open or read the file
\* (missing file, permission denied, path is a directory, undecodable content).
C13_SummaryNeverRaises ==
    out.op \in {"stdout_summary", "stderr_summary"} =>
        LET path == PathOf(out.op)
        IN  /\ out.err = ""
            /\ ~Truthy(path) => out.none
            /\ (Truthy(path) /\ fs[path].kind # "text") => out.none

\* the number of characters of a returned text
RECURSIVE TextLen(_)
TextLen(text) ==
    IF text = <<>> THEN 0
    ELSE (IF Head(text).marker THEN Len(MarkerChars)
          ELSE Head(text).to - Head(text).from + 1) + TextLen(Tail(text))

\* the summary out.text of text file f is as specified, lengths and positions
\* counted in units of u bytes: the whole content if the file has at most
\* 2048 units, else its first 1024 units, the marker, and its last 1024 units
SummaryAsSpecified(f, u) ==
    LET n == (f.chars * f.width) \div u
        Units(sp) == <<((sp.from - 1) * f.width) \div u + 1, (sp.to * f.width) \div u>>
    IN  IF n <= 2048 THEN out.text = <<Span(1, f.chars)>>
        ELSE /\ Len(out.text) = 3
             /\ ~out.text[1].marker /\ Units(out.text[1]) = <<1, 1024>>
             /\ out.text[2] = Marker
             /\ ~out.text[3].marker /\ Units(out.text[3]) = <<n - 1023, n>>

\* C14: for a readable file of length n, stdout_summary and stderr_summary
\* return the whole content when n <= 2048 (n = 2048 and n = 0 included), and
\* when n > 2048 the first 1024 units, the elision marker and the last 1024
\* units; for n = 4000 the summary is shorter than the file. The length is
\* taken in bytes or in characters, whichever lets the statement hold.
C14_SummaryBounded ==
    (/\ out.op \in {"stdout_summary", "stderr_summary"}
     /\ Truthy(PathOf(out.op))
     /\ fs[PathOf(out.op)].kind = "text") =>
        LET f == fs[PathOf(out.op)]
        IN  /\ out.err = ""
            /\ ~out.none
            /\ SummaryAsSpecified(f, 1) \/ SummaryAsSpecified(f, f.width)
            /\ f.chars = 4000 => TextLen(out.text) < f.chars

\* the statement of C14 for files of one byte per character
C14_SummaryBoundedSingleByte ==
    (/\ out.op \in {"stdout_summary", "stderr_summary"}
     /\ Truthy(PathOf(out.op))
     /\ fs[PathOf(out.op)].kind = "text"
     /\ fs[PathOf(out.op)].width = 1) =>
        LET f == fs[PathOf(out.op)]
        IN  /\ out.err = ""
            /\ ~out.none
            /\ SummaryAsSpecified(f, 1)
            /\ f.chars = 4000 => TextLen(out.text) < f.chars

\* ------------------------------------------------ the scheduler's calls

\* the results two racing tasks finish with
RaceResults == Results \cup {"43"}

\* the scheduler calls check_memo(t) when it is about to launch task t
SchedCheck(t) ==
    /\ pc[t].at = "ready"
    /\ LET c == check_memo(tasks[t])
       IN  /\ tasks' = [tasks EXCEPT ![t].hashsum = c.hashsum]
           /\ ret' = Outcome("check_memo", t, c.hashed, c.err, c.present, c.result)
           /\ pc' = [pc EXCEPT ![t] =
                        Position(IF c.err = "" THEN "checked" ELSE "failed", c.present,
                                 IF c.hashed /\ c.err = "" THEN {c.hashsum} ELSE {})]
    /\ UNCHANGED <<memoize, memo_lookup_table, checkpoint, updated>>
    /\ UNCHANGED encVars
    /\ UNCHANGED <<other, job, fs, out>>

\* the scheduler calls update_memo(t, r) when task t has finished with r
SchedUpdate(t, r) ==
    /\ pc[t].at = "checked"
    /\ memo_lookup_table' = update_memo(memo_lookup_table, tasks[t], r)
    /\ updated' = IF memoize /\ tasks[t].memoize
                  THEN SetItem(updated, tasks[t].hashsum, r)
                  ELSE updated
    /\ ret' = Outcome("update_memo", t, FALSE, "", FALSE, None)
    /\ pc' = [pc EXCEPT ![t].at = "updated"]
    /\ UNCHANGED <<memoize, tasks, checkpoint>>
    /\ UNCHANGED encVars
    /\ UNCHANGED <<other, job, fs, out>>

\* two memoized tasks with the same hash, ready to be launched
InitRace ==
    /\ \E c \in Checkpoints : MemoizerInit(TRUE, c)
    /\ tasks \in {ts \in [TaskIds -> {Task(c, TRUE, None) : c \in Contents}] :
                     /\ make_hash(ts["t1"]).err = ""
                     /\ make_hash(ts["t1"]) = make_hash(ts["t2"])}
    /\ ret = NoCall
    /\ updated = EmptyTable
    /\ EncIdle
    /\ pc = [t \in TaskIds |-> Position("ready", FALSE, {})]
    /\ other = Memoizer(FALSE, EmptyTable, FALSE)
    /\ job = JobStatus("UNKNOWN", None, None, None, None)
    /\ fs = [p \in Paths |-> File("missing", 0, 1)]
    /\ out = NoRead

NextRace ==
    \/ \E t \in TaskIds : SchedCheck(t)
    \/ \E t \in TaskIds, r \in RaceResults : SchedUpdate(t, r)

SpecRace == InitRace /\ [][NextRace]_vars

\* C15: two tasks with the same hash H whose check_memo and update_memo calls
\* interleave in any order: no call raises, and when both update_memo calls
\* are done the entry under H is the result given to the one that ran last.
\* (That both check_memo calls can miss is the state C15_Witness.)
C15_LastWriterWins ==
    /\ [](ret.err = "")
    /\ [][\A t \in TaskIds, r \in RaceResults :
              (SchedUpdate(t, r) /\ \A u \in TaskIds : pc'[u].at = "updated") =>
                  /\ make_hash(tasks[t]).hash \in DOMAIN memo_lookup_table'
                  /\ memo_lookup_table'[make_hash(tasks[t]).hash] = r]_vars

C15_Witness ==
    /\ \A t \in TaskIds : pc[t].at = "updated" /\ ~pc[t].hit
    /\ make_hash(tasks["t1"]).hash \in DOMAIN memo_lookup_table
    /\ memo_lookup_table[make_hash(tasks["t1"]).hash] = "43"
    /\ tasks["t1"].kwargs # tasks["t2"].kwargs

\* ------------------------------------------------ frame of the Memoizer

\* C16: the only change an operation makes to the table is an enabled
\* update_memo(task, r) setting the one entry under the task's hashsum to r:
\* make_hash, check_memo and hash_lookup leave the table as it is, and
\* update_memo leaves every entry under another key as it is.
C16_OnlyUpdateWrites ==
    [][/\ memo_lookup_table' # memo_lookup_table =>
              /\ ~\E t \in TaskIds : MakeHash(t) \/ CheckMemo(t)
              /\ ~\E h \in Hashes \cup {None} : HashLookup(h)
              /\ \E t \in TaskIds, r \in Results : UpdateMemo(t, r) /\ MemoOn(t)
       /\ \A t \in TaskIds, r \in Results :
              UpdateMemo(t, r) =>
                  /\ DOMAIN memo_lookup_table \subseteq DOMAIN memo_lookup_table'
                  /\ DOMAIN memo_lookup_table' \subseteq
                         DOMAIN memo_lookup_table \cup {tasks[t].hashsum}
                  /\ \A k \in DOMAIN memo_lookup_table \ {tasks[t].hashsum} :
                         memo_lookup_table'[k] = memo_lookup_table[k]
                  /\ MemoOn(t) => memo_lookup_table'[tasks[t].hashsum] = r
                  /\ ~MemoOn(t) => memo_lookup_table' = memo_lookup_table]_vars

C16_Witness ==
    /\ ret.op = "update_memo"
    /\ MemoOn(ret.task)
    /\ tasks[ret.task].hashsum \in Hashes
    /\ memo_lookup_table[tasks[ret.task].hashsum] = "42"
    /\ \E k \in DOMAIN checkpoint :
           k # tasks[ret.task].hashsum /\ memo_lookup_table[k] = checkpoint[k]

\* C17: after every check_memo(task) that returns with memoization on for the
\* Memoizer and for the task, the task's hashsum is make_hash(task), on a hit
\* and on a miss, and no other field of the task is changed.
C17_HashsumRecorded ==
    [][\A t \in TaskIds :
           (CheckMemo(t) /\ MemoOn(t) /\ ret'.err = "") =>
               tasks' = [tasks EXCEPT ![t].hashsum = make_hash(tasks[t]).hash]]_vars

C17_Witness ==
    /\ ret.op = "check_memo"
    /\ MemoOn(ret.task)
    /\ ret.err = ""
    /\ ret.present
    /\ tasks[ret.task].hashsum = make_hash(tasks[ret.task]).hash

\* ------------------------------------------------ tasks the scheduler changes

\* the scheduler replaces the content of a task descriptor
SetContent(t, c) ==
    /\ Content(tasks[t].args, tasks[t].kwargs, tasks[t].env) # c
    /\ tasks' = [tasks EXCEPT ![t] = Task(c, tasks[t].memoize, tasks[t].hashsum)]
    /\ UNCHANGED <<memoize, memo_lookup_table, ret, checkpoint, updated>>
    /\ UNCHANGED encVars
    /\ UNCHANGED extVars

\* a Memoizer with memoization on, and two tasks ready to be launched
InitSched ==
    /\ \E c \in Checkpoints : MemoizerInit(TRUE, c)
    /\ tasks \in [TaskIds -> {Task(c, f, None) : c \in Contents, f \in BOOLEAN}]
    /\ ret = NoCall
    /\ updated = EmptyTable
    /\ EncIdle
    /\ pc = [t \in TaskIds |-> Position("ready", FALSE, {})]
    /\ other = Memoizer(FALSE, EmptyTable, FALSE)
    /\ job = JobStatus("UNKNOWN", None, None, None, None)
    /\ fs = [p \in Paths |-> File("missing", 0, 1)]
    /\ out = NoRead

NextSched ==
    \/ \E t \in TaskIds : SchedCheck(t)
    \/ \E t \in TaskIds, r \in Results : SchedUpdate(t, r)
    \/ \E t \in TaskIds : SetMemoize(t)
    \/ \E t \in TaskIds, c \in Contents : SetContent(t, c)

SpecSched == InitSched /\ [][NextSched]_vars

\* C18: whatever check_memo and update_memo calls are made on tasks whose
\* memoize flag and content the scheduler sets between calls, every key of the
\* table is a key of the checkpoint or a hex digest that make_hash produced
\* for the task given to the update_memo that wrote it; None, which check_memo
\* leaves in hashsum for a task that is not memoized, is never a key.
C18_KeysAreDigests ==
    /\ [](None \notin DOMAIN memo_lookup_table)
    /\ [](DOMAIN memo_lookup_table \subseteq DOMAIN checkpoint \cup Hashes)
    /\ [][\A t \in TaskIds, r \in Results :
              SchedUpdate(t, r) =>
                  (DOMAIN memo_lookup_table' \ DOMAIN memo_lookup_table)
                      \subseteq pc[t].hashed]_vars

\* ------------------------------------------------ check_memo on unsupported values

\* every value of the descriptor that make_hash encodes is supported
TaskSupported(task) ==
    /\ Supported(task.func_name)
    /\ Supported(task.fn_hash)
    /\ Supported(task.args)
    /\ Supported(task.kwargs)
    /\ Supported(task.env)

\* C19: check_memo called with memoization on, on a task whose func_name,
\* fn_hash, args, kwargs or env holds a value of unsupported kind: the
\* unsupported-input error (ValueError) reaches the caller, the table is
\* unchanged and the task's hashsum keeps the value it had.
C19_UnsupportedPropagates ==
    [][\A t \in TaskIds :
           (CheckSubmitted(t) /\ MemoOn(t) /\ ~TaskSupported(tasks[t])) =>
               /\ ret'.err = "ValueError"
               /\ memo_lookup_table' = memo_lookup_table
               /\ tasks'[t].hashsum = tasks[t].hashsum]_vars

\* the statement of C19 for tasks whose dicts have keys Python can order
C19_UnsupportedPropagatesWhenSortable ==
    [][\A t \in TaskIds :
           (/\ CheckSubmitted(t)
            /\ MemoOn(t)
            /\ ~TaskSupported(tasks[t])
            /\ Sortable(tasks[t].kwargs)) =>
               /\ ret'.err = "ValueError"
               /\ memo_lookup_table' = memo_lookup_table
               /\ tasks'[t].hashsum = tasks[t].hashsum]_vars

\* ------------------------------------------------ two Memoizer instances

\* the checkpoint argument of a constructor call: left out, so that the
\* default of the def statement is used (one dict, made when the function is
\* defined), or a dict of the caller's given to this call alone
CheckpointArgs ==
    {[explicit |-> FALSE, dict |-> EmptyTable]}
        \cup {[explicit |-> TRUE, dict |-> c] : c \in Checkpoints}

\* self.memo_lookup_table = checkpoint for both: the two tables are one dict
SameTable(m1, arg1, m2, arg2) == m1 /\ m2 /\ ~arg1.explicit /\ ~arg2.explicit

\* two Memoizers are constructed; memoize and memo_lookup_table are those of
\* the instance calls are made on, other is the second instance; checkpoint
\* stays the argument of the first constructor call
InitTwo ==
    /\ \E m1 \in BOOLEAN, m2 \in BOOLEAN, arg1 \in CheckpointArgs, arg2 \in CheckpointArgs :
           /\ MemoizerInit(m1, arg1.dict)
           /\ other = Memoizer(m2, IF m2 THEN arg2.dict ELSE EmptyTable,
                               SameTable(m1, arg1, m2, arg2))
    /\ tasks \in [TaskIds -> {Task(c, TRUE, None) : c \in {ContentPlain, ContentKw}}]
    /\ ret = NoCall
    /\ updated = EmptyTable
    /\ EncIdle
    /\ pc = [t \in TaskIds |-> Position("idle", FALSE, {})]
    /\ job = JobStatus("UNKNOWN", None, None, None, None)
    /\ fs = [p \in Paths |-> File("missing", 0, 1)]
    /\ out = NoRead

\* update_memo on the instance calls are made on, for a task that has been
\* through check_memo; a table that is the same dict as the other instance's
\* changes for both
TwoUpdate(t, r) ==
    /\ tasks[t].hashsum \in Hashes
    /\ memo_lookup_table' = update_memo(memo_lookup_table, tasks[t], r)
    /\ other' = IF other.same
                THEN [other EXCEPT !.memo_lookup_table = memo_lookup_table']
                ELSE other
    /\ ret' = Outcome("update_memo", t, FALSE, "", FALSE, None)
    /\ UNCHANGED <<memoize, tasks, checkpoint, updated>>
    /\ UNCHANGED encVars
    /\ UNCHANGED <<pc, job, fs, out>>

\* the caller turns to the other instance
Switch ==
    /\ memoize' = other.memoize
    /\ memo_lookup_table' = other.memo_lookup_table
    /\ other' = Memoizer(memoize, memo_lookup_table, other.same)
    /\ UNCHANGED <<tasks, ret, checkpoint, updated>>
    /\ UNCHANGED encVars
    /\ UNCHANGED <<pc, job, fs, out>>

NextTwo ==
    \/ \E t \in TaskIds : CheckMemo(t)
    \/ \E h \in Hashes : HashLookup(h)
    \/ \E t \in TaskIds, r \in Results : TwoUpdate(t, r)
    \/ Switch

SpecTwo == InitTwo /\ [][NextTwo]_vars

\* C20: Memoizer instances have independent tables: update_memo on one
\* instance never changes what check_memo or hash_lookup return on another
\* (its memoize flag and its table, which decide both), also when both were
\* constructed with memoization on and no checkpoint argument.
C20_IndependentTables ==
    [][\A t \in TaskIds, r \in Results : TwoUpdate(t, r) => other' = other]_vars

====
